---- MODULE Spec2Model ----
(***************************************************************************)
(* A model of GanttHelper (src/gantt_helper.py): the constructor's         *)
(* configuration, the TOML source file it reads, the table it derives, the *)
(* drawing calls plot() makes in order, and the files plot() leaves on     *)
(* disk.                                                                   *)
(*                                                                         *)
(* Representation.  A calendar date is its day number (TOML local dates    *)
(* carry no time of day, so a difference of two dates is a whole number of *)
(* days).  A fraction x/100 is kept as the integer x ("hundredths"): the   *)
(* colour components, the opacities and current_num.  A tick position is   *)
(* the exact fraction <<numerator, denominator>>.  Python's False is the   *)
(* string "False", which is also what f'{False}' prints.  A path is the    *)
(* tuple of its components, a file name ending in its extension.           *)
(***************************************************************************)
EXTENDS Integers, Sequences, FiniteSets

VARIABLES
    dir,            \* self.dir
    fname,          \* self.fname
    sort_by_start,  \* self.sort_by_start
    x_ticks_num,    \* self.x_ticks_num
    src_exists,     \* whether <src>.toml exists
    src_data,       \* the records of <src>.toml, in file order
    fs,             \* the paths written so far (directories and files)
    pc,             \* where plot() stands: idle, derived, drawn, ticked, saved, raised
    status,         \* the exception that ended the call, "ok", or "" while running
    loads,          \* toml.load calls made by the current plot() call
    df,             \* plot()'s local table
    bars,           \* the rectangles drawn by ax.barh, in drawing order
    texts,          \* the labels drawn by ax.text, in drawing order
    xticks,         \* the positions given to ax.set_xticks
    xticklabels,    \* the dates given to ax.set_xticklabels (day numbers)
    title,          \* the string given to plt.title
    colorIn,        \* the argument of the last direct to_color call
    colorOut        \* its result

vars == <<dir, fname, sort_by_start, x_ticks_num, src_exists, src_data, fs, pc,
          status, loads, df, bars, texts, xticks, xticklabels, title,
          colorIn, colorOut>>

config == <<dir, fname, sort_by_start, x_ticks_num>>
source == <<src_exists, src_data>>
figure == <<bars, texts, xticks, xticklabels, title>>
direct == <<colorIn, colorOut>>

----------------------------------------------------------------------------
(* Bounds of the model *)

MaxRows == 2
MaxDay == 1
MaxColorArg == 110

Tasks == {"A", "B"}
Days == 0..MaxDay
Completes == {55, 100}
TickChoices == {2, 10}
ColorArgs == (0 - MaxColorArg)..MaxColorArg

Records == [task : Tasks, start : Days, end : Days, complete : Completes]

PyFalse == "False"
Truthy(x) == x /= PyFalse /\ x /= ""

----------------------------------------------------------------------------
(* Helpers over sequences of integers *)

Range(s) == {s[i] : i \in DOMAIN s}

SetMax(S) == CHOOSE m \in S : \A x \in S : x <= m
SetMin(S) == CHOOSE m \in S : \A x \in S : m <= x

Column(t, f) == [i \in DOMAIN t |-> t[i][f]]

\* ceil(a / b) for b /= 0
CeilDiv(a, b) == IF b > 0 THEN 0 - ((0 - a) \div b) ELSE 0 - (a \div (0 - b))

----------------------------------------------------------------------------
(* to_color *)

\* to_color with the lower limit of the green range taken inclusively
to_color_from_60(x) ==
    IF x = 100 THEN <<30, 30, 30, 100>>
    ELSE IF x < 100 /\ x >= 60 THEN <<0, 50, 30, x>>
    ELSE <<70, 0, 0, 80>>

to_color(x) ==
    IF x = 100 THEN <<30, 30, 30, 100>>
    ELSE IF x < 100 /\ x > 60 THEN <<0, 50, 30, x>>
    ELSE <<70, 0, 0, 80>>

----------------------------------------------------------------------------
(* toml_data, raw_dataframe_data *)

\* toml.load: the record-id-keyed mapping, whose values() come in file order.
\* "loads" counts the toml.load calls the access makes.
toml_data == [value |-> src_data, loads |-> 1]

\* pd.DataFrame(values): one row per record, row index 0..n-1.
DataFrame(values) ==
    [i \in DOMAIN values |->
        [task |-> values[i].task, start |-> values[i].start, end |-> values[i].end,
         complete |-> values[i].complete, index |-> i - 1]]

Permutations(n) == {p \in [1..n -> 1..n] : \A i, j \in 1..n : p[i] = p[j] => i = j}

Ascending(t) == \A i, j \in DOMAIN t : i < j => t[i].start <= t[j].start

\* sort_values with ascending=False
sort_values_descending(t) ==
    {s \in {[i \in DOMAIN t |-> t[p[i]]] : p \in Permutations(Len(t))} :
        \A i, j \in DOMAIN s : i < j => s[i].start >= s[j].start}

\* df.sort_values(by='start'): kind defaults to 'quicksort', which pandas does
\* not document as stable, so every ascending arrangement of the rows is a
\* possible result.
sort_values(t) ==
    {s \in {[i \in DOMAIN t |-> t[p[i]]] : p \in Permutations(Len(t))} : Ascending(s)}

\* df.reset_index(drop=True)
reset_index(t) == [i \in DOMAIN t |-> [t[i] EXCEPT !.index = i - 1]]

raw_dataframe_data ==
    LET t == toml_data
        frame == DataFrame(t.value)
    IN  IF sort_by_start
        THEN {[value |-> reset_index(s), loads |-> t.loads] : s \in sort_values(frame)}
        ELSE {[value |-> frame, loads |-> t.loads]}

----------------------------------------------------------------------------
(* cleaned_dataframe_data *)

RECURSIVE unique(_)
\* Series.unique(): the distinct values in order of first appearance
unique(s) ==
    IF s = <<>> THEN <<>>
    ELSE LET u == unique(SubSeq(s, 1, Len(s) - 1))
             x == s[Len(s)]
         IN  IF x \in Range(u) THEN u ELSE Append(u, x)

\* list.index counted from 1
list_index_from_1(l, x) == CHOOSE i \in DOMAIN l : l[i] = x /\ \A j \in 1..(i - 1) : l[j] /= x

\* list.index(x): the 0-based position of the first x
list_index(l, x) == (CHOOSE i \in DOMAIN l : l[i] = x /\ \A j \in 1..(i - 1) : l[j] /= x) - 1

unique_task_id(t, x) == list_index(unique(Column(t, "task")), x)

\* The derived columns with start_num counted from the first row's start
\* instead of the minimum start
derive_from_first_row(t) ==
    [i \in DOMAIN t |->
        LET row == t[i]
            start_num == row.start - t[1].start
            start_end == row.end - row.start
        IN  [task |-> row.task, start |-> row.start, end |-> row.end,
             complete |-> row.complete, index |-> row.index,
             start_num |-> start_num,
             start_end |-> start_end,
             end_num |-> start_num + start_end,
             current_num |-> start_end * row.complete,
             color |-> to_color(row.complete),
             uid |-> unique_task_id(t, row.task)]]

\* The derived columns with current_num = start_end * complete / 10
derive_tenths(t) ==
    LET start_min == SetMin(Range(Column(t, "start")))
    IN  [i \in DOMAIN t |->
            LET row == t[i]
                start_num == row.start - start_min
                start_end == row.end - row.start
            IN  [task |-> row.task, start |-> row.start, end |-> row.end,
                 complete |-> row.complete, index |-> row.index,
                 start_num |-> start_num,
                 start_end |-> start_end,
                 end_num |-> start_num + start_end,
                 current_num |-> start_end * row.complete * 10,
                 color |-> to_color(row.complete),
                 uid |-> unique_task_id(t, row.task)]]

\* The derived columns.  current_num is in hundredths of a day.
derive(t) ==
    LET start_min == SetMin(Range(Column(t, "start")))
    IN  [i \in DOMAIN t |->
            LET row == t[i]
                start_num == row.start - start_min
                start_end == row.end - row.start
            IN  [task |-> row.task, start |-> row.start, end |-> row.end,
                 complete |-> row.complete, index |-> row.index,
                 start_num |-> start_num,
                 start_end |-> start_end,
                 end_num |-> start_num + start_end,
                 current_num |-> start_end * row.complete,
                 color |-> to_color(row.complete),
                 uid |-> unique_task_id(t, row.task)]]

\* cleaned_dataframe_data with unique_task_id reading self.raw_dataframe_data,
\* which loads the file again for every row
cleaned_dataframe_data_reloading ==
    {[value |-> derive(r.value), loads |-> r.loads + Len(r.value)] : r \in raw_dataframe_data}

cleaned_dataframe_data ==
    {[value |-> derive(r.value), loads |-> r.loads] : r \in raw_dataframe_data}

----------------------------------------------------------------------------
(* output_path *)

makedirs(d) == {<<d>>}

\* The property's value and the directories its access creates.
output_path ==
    IF Truthy(dir)
    THEN [value |-> <<dir, fname, "png">>, made |-> makedirs(dir)]
    ELSE [value |-> <<fname, "png">>, made |-> {}]

----------------------------------------------------------------------------
(* The drawing calls of plot() *)

\* ax.barh(df.task, width, left=df.start_num, color=df.color, alpha=alpha): one
\* rectangle per row.  width is in hundredths of a day; alpha is <<>> when the
\* argument is not given, and then the colour's own alpha is the opacity.
barh(t, width, alpha) ==
    [i \in DOMAIN t |->
        [y |-> t[i].task, width |-> width[i], left |-> t[i].start_num,
         color |-> t[i].color,
         opacity |-> IF alpha = <<>> THEN t[i].color[4] ELSE alpha[1]]]

Hundredths(col) == [i \in DOMAIN col |-> col[i] * 100]

\* ax.text(row.end_num + df.start_end.max()*0.01, row.uid, f"{int(row.complete)}%")
text(t) ==
    LET widest == SetMax(Range(Column(t, "start_end")))
    IN  [i \in DOMAIN t |->
            [x |-> t[i].end_num * 100 + widest, y |-> t[i].uid,
             s |-> <<t[i].complete, "%">>]]

\* np.arange(start, stop, step) for a step <<numerator, denominator>> /= 0:
\* ceil((stop - start) / step) values start + k*step.
arange(start, stop, step) ==
    LET n == CeilDiv((stop - start) * step[2], step[1])
    IN  [k \in 1..(IF n > 0 THEN n ELSE 0) |->
            <<start * step[2] + (k - 1) * step[1], step[2]>>]

\* pd.date_range(first, last, periods): periods instants evenly spaced from
\* first to last, both included, as fractions of a day.
date_range(first, last, periods) ==
    IF periods = 1 THEN << <<first, 1>> >>
    ELSE [k \in 1..periods |->
            <<first * (periods - 1) + (k - 1) * (last - first), periods - 1>>]

\* .strftime("%Y-%m-%d"): the calendar day an instant falls on
strftime(instants) == [k \in DOMAIN instants |-> instants[k][1] \div instants[k][2]]

----------------------------------------------------------------------------
(* The environment: the source file changes between plot() calls *)

CreateSource ==
    /\ pc = "idle" /\ ~src_exists
    /\ src_exists' = TRUE /\ src_data' = <<>>
    /\ UNCHANGED <<config, fs, pc, status, loads, df, figure, direct>>

WriteRecord(r) ==
    /\ pc = "idle" /\ src_exists /\ Len(src_data) < MaxRows
    /\ src_data' = Append(src_data, r)
    /\ UNCHANGED <<config, src_exists, fs, pc, status, loads, df, figure, direct>>

DeleteSource ==
    /\ pc = "idle" /\ src_exists
    /\ src_exists' = FALSE /\ src_data' = <<>>
    /\ UNCHANGED <<config, fs, pc, status, loads, df, figure, direct>>

----------------------------------------------------------------------------
(* plot() *)

\* plot() reading self.output_path before the table: the directory is made
\* before toml.load raises
PlotMissingAfterOutputPath ==
    /\ pc = "idle" /\ ~src_exists
    /\ fs' = fs \cup output_path.made
    /\ pc' = "raised" /\ status' = "FileNotFoundError"
    /\ loads' = toml_data.loads
    /\ UNCHANGED <<config, source, df, figure, direct>>

\* Line 54 when <src>.toml is absent: toml.load raises.
PlotMissing ==
    /\ pc = "idle" /\ ~src_exists
    /\ pc' = "raised" /\ status' = "FileNotFoundError"
    /\ loads' = toml_data.loads
    /\ UNCHANGED <<config, source, fs, df, figure, direct>>

\* Line 54 when the file holds no record: the empty frame has no column.
PlotEmpty ==
    /\ pc = "idle" /\ src_exists /\ src_data = <<>>
    /\ pc' = "raised"
    /\ status' = IF sort_by_start THEN "KeyError" ELSE "AttributeError"
    /\ loads' = toml_data.loads
    /\ UNCHANGED <<config, source, fs, df, figure, direct>>

\* Line 54: df = self.cleaned_dataframe_data
PlotDerive ==
    /\ pc = "idle" /\ src_exists /\ src_data /= <<>>
    /\ \E c \in cleaned_dataframe_data :
          /\ df' = c.value
          /\ loads' = c.loads
    /\ pc' = "derived"
    /\ UNCHANGED <<config, source, fs, status, figure, direct>>

\* The two barh calls in the other order
PlotDrawTrackFirst ==
    /\ pc = "derived"
    /\ bars' = barh(df, Hundredths(Column(df, "start_end")), <<50>>)
               \o barh(df, Column(df, "current_num"), <<>>)
    /\ texts' = text(df)
    /\ pc' = "drawn"
    /\ UNCHANGED <<config, source, fs, status, loads, df, xticks, xticklabels,
                   title, direct>>

\* Lines 59-65: the two barh calls, then one label per row.
PlotDraw ==
    /\ pc = "derived"
    /\ bars' = barh(df, Column(df, "current_num"), <<>>)
               \o barh(df, Hundredths(Column(df, "start_end")), <<50>>)
    /\ texts' = text(df)
    /\ pc' = "drawn"
    /\ UNCHANGED <<config, source, fs, status, loads, df, xticks, xticklabels,
                   title, direct>>

TickSpan(t) == SetMax(Range(Column(t, "end_num"))) - SetMin(Range(Column(t, "start_num")))

\* Lines 67-70: step, set_xticks, set_xticklabels.
PlotTicks ==
    /\ pc = "drawn" /\ TickSpan(df) /= 0
    /\ LET step == <<TickSpan(df), x_ticks_num>>
       IN  xticks' = arange(0, SetMax(Range(Column(df, "end_num"))), step)
    /\ xticklabels' = strftime(date_range(SetMin(Range(Column(df, "start"))),
                                          SetMax(Range(Column(df, "end"))),
                                          x_ticks_num))
    /\ pc' = "ticked"
    /\ UNCHANGED <<config, source, fs, status, loads, df, bars, texts, title, direct>>

\* Lines 67-69 when the step is 0: np.arange cannot compute a length.
PlotTicksZero ==
    /\ pc = "drawn" /\ TickSpan(df) = 0
    /\ pc' = "raised" /\ status' = "ZeroDivisionError"
    /\ UNCHANGED <<config, source, fs, loads, df, figure, direct>>

\* savefig without the test of self.fname
PlotSaveAlways ==
    /\ pc = "ticked"
    /\ title' = fname
    /\ fs' = fs \cup output_path.made \cup {output_path.value}
    /\ pc' = "saved" /\ status' = "ok"
    /\ UNCHANGED <<config, source, loads, df, bars, texts, xticks, xticklabels, direct>>

\* Lines 72-75: the title, then savefig when a file name is configured.
PlotSave ==
    /\ pc = "ticked"
    /\ title' = fname
    /\ fs' = IF Truthy(fname) THEN fs \cup output_path.made \cup {output_path.value}
             ELSE fs
    /\ pc' = "saved" /\ status' = "ok"
    /\ UNCHANGED <<config, source, loads, df, bars, texts, xticks, xticklabels, direct>>

\* plot() returns or its exception reaches the caller: the locals are gone.
PlotReturn ==
    /\ pc \in {"saved", "raised"}
    /\ pc' = "idle" /\ status' = "" /\ loads' = 0
    /\ df' = <<>> /\ bars' = <<>> /\ texts' = <<>>
    /\ xticks' = <<>> /\ xticklabels' = <<>> /\ title' = ""
    /\ UNCHANGED <<config, source, fs, direct>>

----------------------------------------------------------------------------
(* GanttHelper.to_color called on its own *)

ToColor(x) ==
    /\ colorIn' = x
    /\ colorOut' = to_color(x)
    /\ UNCHANGED <<config, source, fs, pc, status, loads, df, figure>>

----------------------------------------------------------------------------
(* Specifications *)

\* The state a constructed GanttHelper starts from, apart from its configuration
Fresh ==
    /\ src_exists = FALSE /\ src_data = <<>>
    /\ fs = {}
    /\ pc = "idle" /\ status = "" /\ loads = 0
    /\ df = <<>> /\ bars = <<>> /\ texts = <<>>
    /\ xticks = <<>> /\ xticklabels = <<>> /\ title = ""
    /\ colorIn = 0 /\ colorOut = <<>>

\* GanttHelper(src, sort_by_start=..., x_ticks_num=...): no output configured
Init ==
    /\ dir = PyFalse
    /\ fname = PyFalse
    /\ sort_by_start \in BOOLEAN
    /\ x_ticks_num \in TickChoices
    /\ Fresh

Plot ==
    \/ PlotMissing
    \/ PlotEmpty
    \/ PlotDerive
    \/ PlotDraw
    \/ PlotTicks
    \/ PlotTicksZero
    \/ PlotSave
    \/ PlotReturn

Next ==
    \/ CreateSource
    \/ \E r \in Records : WriteRecord(r)
    \/ DeleteSource
    \/ Plot

Spec == Init /\ [][Next]_vars

\* GanttHelper(src, dir=..., fname=..., sort_by_start=...), with the output
\* directory already there or not, and a source file of samples of one task.
InitFiles ==
    /\ dir \in {PyFalse, "Images"}
    /\ fname \in {PyFalse, "Gantt"}
    /\ sort_by_start \in BOOLEAN
    /\ x_ticks_num = 2
    /\ src_exists = FALSE /\ src_data = <<>>
    /\ fs \in {{}, {<<"Images">>}}
    /\ pc = "idle" /\ status = "" /\ loads = 0
    /\ df = <<>> /\ bars = <<>> /\ texts = <<>>
    /\ xticks = <<>> /\ xticklabels = <<>> /\ title = ""
    /\ colorIn = 0 /\ colorOut = <<>>

SampleRecords == {r \in Records : r.task = "A" /\ r.complete = 55}

NextFiles ==
    \/ CreateSource
    \/ \E r \in SampleRecords : WriteRecord(r)
    \/ DeleteSource
    \/ Plot

SpecFiles == InitFiles /\ [][NextFiles]_vars

\* to_color on its own, over a range of integers around 0..100
InitColor ==
    /\ dir = PyFalse /\ fname = PyFalse
    /\ sort_by_start = TRUE /\ x_ticks_num = 10
    /\ Fresh

NextColor == \E x \in ColorArgs : ToColor(x)

SpecColor == InitColor /\ [][NextColor]_vars

----------------------------------------------------------------------------
(* Properties *)

HasTable == pc \in {"derived", "drawn", "ticked", "saved"}
HasBars == pc \in {"drawn", "ticked", "saved"}
HasTicks == pc \in {"ticked", "saved"}

Base(row) == [task |-> row.task, start |-> row.start, end |-> row.end,
              complete |-> row.complete]

\* t holds exactly the records of data, each as often, in some order
SameRecords(t, data) ==
    /\ Len(t) = Len(data)
    /\ \E p \in Permutations(Len(data)) : \A i \in DOMAIN t : Base(t[i]) = data[p[i]]

Gray == <<30, 30, 30, 100>>
Green(x) == <<0, 50, 30, x>>
Red == <<70, 0, 0, 80>>

\* C1: to_color has exactly three outcomes over the integers: gray for 100,
\* green with alpha complete/100 strictly between 60 and 100, red for all else
\* (60, 0, negatives and values above 100 included).
ColorRule ==
    colorOut /= <<>> =>
        /\ colorIn = 100 => colorOut = Gray
        /\ (60 < colorIn /\ colorIn < 100) => colorOut = Green(colorIn)
        /\ (colorIn <= 60 \/ colorIn > 100) => colorOut = Red

ColorRuleWitness ==
    \/ colorIn = 60 /\ colorOut = Red
    \/ colorIn = 101 /\ colorOut = Red

\* C2: every row has start_end = end - start, start_num = start - (minimum
\* start of the loaded records), end_num = start_num + start_end, and a row
\* with the minimum start has start_num 0.
DerivedColumns ==
    HasTable =>
        LET first == SetMin({src_data[i].start : i \in DOMAIN src_data})
        IN  /\ \A i \in DOMAIN df :
                /\ df[i].start_end = df[i].end - df[i].start
                /\ df[i].start_num = df[i].start - first
                /\ df[i].end_num = df[i].start_num + df[i].start_end
            /\ \E i \in DOMAIN df : df[i].start = first /\ df[i].start_num = 0

DerivedColumnsWitness ==
    /\ HasTable /\ ~sort_by_start
    /\ Len(df) = 2
    /\ df[1].start > df[2].start
    /\ df[1].start_num > 0 /\ df[2].start_num = 0

CompleteInRange == \A i \in DOMAIN df : 0 <= df[i].complete /\ df[i].complete <= 100
EndNotBeforeStart == \A i \in DOMAIN df : df[i].start <= df[i].end

RowBounds ==
    \A i \in DOMAIN df :
        /\ df[i].start_num >= 0
        /\ df[i].end_num >= df[i].start_num
        /\ 0 <= df[i].current_num
        /\ df[i].current_num <= df[i].start_end * 100

\* C3 as stated: whenever every complete is within 0..100, every row has
\* start_num >= 0, end_num >= start_num and 0 <= current_num <= start_end.
RowBoundsAnyDates == (HasTable /\ CompleteInRange) => RowBounds

\* C3 as amended: the same, for record sets in which no end precedes its start.
RowBoundsOrderedDates == (HasTable /\ CompleteInRange /\ EndNotBeforeStart) => RowBounds

RowBoundsWitness ==
    /\ HasTable /\ CompleteInRange /\ EndNotBeforeStart
    /\ \E i \in DOMAIN df :
          /\ df[i].start_end > 0
          /\ df[i].current_num > 0 /\ df[i].current_num < df[i].start_end * 100
    /\ \E i \in DOMAIN df : df[i].start_num > 0

\* The ascending arrangement that keeps rows of equal start in frame order
StableSorted(t) ==
    CHOOSE s \in sort_values(t) :
        \A i, j \in DOMAIN s : (i < j /\ s[i].start = s[j].start) => s[i].index < s[j].index

UidByFirstOccurrence ==
    HasTable =>
        LET labels == {df[i].task : i \in DOMAIN df}
            IsFirst(i) == \A j \in 1..(i - 1) : df[j].task /= df[i].task
        IN  /\ \A i, j \in DOMAIN df : (df[i].uid = df[j].uid) <=> (df[i].task = df[j].task)
            /\ {df[i].uid : i \in DOMAIN df} = 0..(Cardinality(labels) - 1)
            /\ \A i, j \in DOMAIN df :
                  (i < j /\ IsFirst(i) /\ IsFirst(j)) => df[i].uid < df[j].uid

UidWitness ==
    /\ HasTable
    /\ Len(df) = 2
    /\ df[1].task = "B" /\ df[2].task = "A"
    /\ df[1].uid = 0 /\ df[2].uid = 1

\* The paths plot() may write under the configuration
ExpectedDirs == IF Truthy(dir) THEN {<<dir>>} ELSE {}
ExpectedFile == IF Truthy(dir) THEN <<dir, fname, "png">> ELSE <<fname, "png">>

\* C6: with an output name configured a successful plot() leaves the output
\* directory (when one is given) and the PNG on disk and writes nothing else;
\* with no output name no step of plot() writes a file or creates a directory,
\* whatever the output directory is.
FileEffect ==
    [][ /\ ~Truthy(fname) => fs' = fs
        /\ Truthy(fname) =>
              /\ fs \subseteq fs'
              /\ fs' \subseteq fs \cup ExpectedDirs \cup {ExpectedFile}
              /\ (pc' = "saved" /\ status' = "ok") =>
                    (ExpectedDirs \subseteq fs' /\ ExpectedFile \in fs')
      ]_vars

FileEffectWitness ==
    /\ pc = "saved" /\ status = "ok"
    /\ dir = "Images" /\ fname = "Gantt"
    /\ fs = {<<"Images">>, <<"Images", "Gantt", "png">>}

\* C7: with the source file absent plot() ends in FileNotFoundError after one
\* load attempt, the error goes to the caller, and nothing is written: no
\* directory and no PNG, also when both are configured.
MissingSourceFails ==
    [][ /\ (pc = "idle" /\ ~src_exists /\ pc' /= "idle") =>
              /\ pc' = "raised" /\ status' = "FileNotFoundError"
              /\ loads' = 1
              /\ fs' = fs
        /\ status = "FileNotFoundError" => (pc' = "idle" /\ fs' = fs)
      ]_vars

MissingSourceWitness ==
    /\ pc = "raised" /\ status = "FileNotFoundError"
    /\ dir = "Images" /\ fname = "Gantt"
    /\ fs = {}

\* The two rectangles of row i
LayerA(i) == [y |-> df[i].task, width |-> df[i].start_end * 100, left |-> df[i].start_num,
              color |-> df[i].color, opacity |-> 50]
LayerB(i, opacity) == [y |-> df[i].task, width |-> df[i].current_num, left |-> df[i].start_num,
                       color |-> df[i].color, opacity |-> opacity]

\* C8 as stated: for every row Layer A (start_end long, opacity 0.5) is drawn
\* before Layer B (current_num long, opacity 1.0), with the same left offset
\* and color.
LayerAThenB ==
    HasBars =>
        \A i \in DOMAIN df :
            \E a, b \in DOMAIN bars :
                a < b /\ bars[a] = LayerA(i) /\ bars[b] = LayerB(i, 100)

\* C8 as amended: Layer B of every row (current_num long, no alpha given, so
\* as opaque as the row's color) is drawn before Layer A of any row (start_end
\* long, opacity 0.5), so Layer A lies over Layer B; the two share the left
\* offset start_num and the color.
LayerBThenA ==
    HasBars =>
        /\ Len(bars) = 2 * Len(df)
        /\ \A i \in DOMAIN df :
              /\ bars[i] = LayerB(i, df[i].color[4])
              /\ bars[Len(df) + i] = LayerA(i)
              /\ bars[i].left = bars[Len(df) + i].left
              /\ bars[i].color = bars[Len(df) + i].color

LayerWitness ==
    /\ pc = "drawn"
    /\ Len(df) = 2
    /\ df[1].complete = 55 /\ df[2].complete = 100
    /\ bars[1].opacity = 80 /\ bars[3].opacity = 50

\* C9: when max(end_num) > 0 and x_ticks_num >= 2 there are x_ticks_num ticks
\* at 0, step, 2*step, ..., every tick's label is the day its position falls
\* on (minimum start + position), and the tick labelled with the maximum end
\* date is at max(end_num).
TickLabelsAtPositions ==
    LET last == SetMax(Range(Column(df, "end_num")))
        first == SetMin(Range(Column(df, "start")))
        final == SetMax(Range(Column(df, "end")))
    IN  (HasTicks /\ last > 0 /\ x_ticks_num >= 2) =>
            /\ Len(xticks) = x_ticks_num
            /\ Len(xticklabels) = x_ticks_num
            /\ \A k \in DOMAIN xticks :
                  /\ xticks[k] = <<(k - 1) * TickSpan(df), x_ticks_num>>
                  /\ xticklabels[k] = first + (xticks[k][1] \div xticks[k][2])
            /\ \A k \in DOMAIN xticks :
                  xticklabels[k] = final => xticks[k][1] = last * xticks[k][2]

\* C10: a plot() call loads the file once and its table holds the records the
\* file has during that call; between calls no table is kept.
TableIsFresh ==
    /\ HasTable => (loads = 1 /\ src_exists /\ SameRecords(df, src_data))
    /\ pc = "idle" => (loads = 0 /\ df = <<>>)

TableIsFreshWitness ==
    /\ pc = "derived"
    /\ <<"Gantt", "png">> \in fs
    /\ Len(df) = 2

====
